---- MODULE Spec2Model ----
(***************************************************************************)
(* Model of the frogiverse CLI (cli.js) and its store lock (store-lock.js). *)
(*                                                                         *)
(* Six specifications share the module:                                     *)
(*   Spec      processes racing on acquireStoreLock / release, readers of   *)
(*             the marker (readStoreLock, doctor, auth status), crashes;    *)
(*             nothing outside the program touches the LOCK marker.         *)
(*   ExtSpec   Spec plus an outside actor that removes the marker.          *)
(*   CmdSpec   one CLI process running a command (auth, auth logout,        *)
(*             auth --follow, sync) with signals and failing steps.         *)
(*   IdleSpec  waitForIdle polling a queue that changes between polls.      *)
(*   OnceSpec  sync --once from the call of waitForIdle to the end of the   *)
(*             run, with fair timers and continuations.                     *)
(*   JobSpec   sync sessions (kill, restart) over the persisted job rows    *)
(*             and their anchors.                                           *)
(***************************************************************************)
EXTENDS Integers, Sequences, FiniteSets, TLC

VARIABLES
    marker,     \* the LOCK file of the store directory: NoFile or [ino, content]
    clock,      \* source of inode numbers and of startedAt timestamps
    pc,         \* per process: position in acquireStoreLock / the state of its closure
    acqIno,     \* per process: inode its openSync created (the fd until closeSync)
    released,   \* per process: the `released` flag of the closure it was returned
    err,        \* per process: the error thrown by its last acquireStoreLock
    sawMarker,  \* history: did the marker exist at the moment of the exclusive create
    relLog,     \* history: per process, number and outcome of the calls of its closure
    stale,      \* history: the marker's creator terminated without releasing
    everFreed,  \* history: some marker has been removed (release or outside actor)
    insp,       \* the inspecting command (doctor / auth status)
    cli,        \* the CLI process running auth / auth logout / sync
    queue,      \* the sync service: the job rows in creation order (state, anchor, the
                \* process that started the job), the worker's flag and batch cursor
    idl         \* waitForIdle: the clock, its locals and position, history of the run

lockVars == <<marker, clock, pc, acqIno, released, err, sawMarker, relLog,
              stale, everFreed>>

idleVars == <<queue, idl>>

vars == <<lockVars, insp, cli, idleVars>>

(* ------------------------------ bounds -------------------------------- *)
NProcs == 2
MaxAcq == 2
MaxRelCalls == 2
MaxSignals == 2
MaxJobs == 1
MaxTicks == 12
MaxWindow == 2000
MaxRuns == 2
StoredJobs == 2
Newest == 2

Procs == 1..NProcs

(* ---------------------------- the LOCK file --------------------------- *)
\* a file's text is a sequence of fields: <<>> is the empty text '', <<pid, startedAt>>
\* the JSON payload
NoFile == [ino |-> 0, content |-> <<>>]
Empty == <<>>
NoErr == [kind |-> "none", details |-> <<>>]

Exists(m) == m.ino # 0

\* lockPayload(): JSON of { pid, startedAt }
lockPayload(p, t) == <<p, t>>

\* mutant of readStoreLock: a missing file is reported like an empty one
readStoreLockNoEnoent(m) == [exists |-> TRUE, null |-> FALSE, info |-> m.content]

\* readStoreLock: ENOENT -> {exists:false, info:null}, else {exists:true, info: raw.trim()}
\* (the payload is JSON.stringify output or the empty text: trim() leaves both as they are)
readStoreLock(m) ==
    IF Exists(m) THEN [exists |-> TRUE, null |-> FALSE, info |-> m.content]
    ELSE [exists |-> FALSE, null |-> TRUE, info |-> <<>>]

\* mutant of openSync: flag 'w' in place of 'wx' never fails on an existing file
openSyncW(m) == "ok"

\* fs.openSync(lockPath, 'wx'): create-exclusive, EEXIST when the path exists
openSyncWx(m) == IF Exists(m) THEN "EEXIST" ELSE "ok"

\* mutant of the catch block: the failed attempt cleans the marker up
lockHeldErrorUnlink(m) ==
    [marker |-> NoFile, err |-> [kind |-> "LockHeld", details |-> <<>>]]

\* the catch block of acquireStoreLock on EEXIST: read the marker, throw with details
lockHeldError(m) ==
    LET info == readStoreLock(m)
        details == IF ~info.null /\ info.info # Empty THEN info.info ELSE <<>>
    IN [marker |-> m, err |-> [kind |-> "LockHeld", details |-> details]]

\* fs.unlinkSync(lockPath): removes whatever file is at the path; ENOENT if none
unlinkSync(m) ==
    IF Exists(m) THEN [marker |-> NoFile, code |-> "ok"]
    ELSE [marker |-> m, code |-> "ENOENT"]

\* mutant of the closure: no `released` guard and ENOENT is rethrown
releaseNoGuard(rel, m) ==
    LET u == unlinkSync(m)
    IN [released |-> TRUE, marker |-> u.marker, threw |-> u.code # "ok"]

\* the closure returned by acquireStoreLock
release(rel, m) ==
    IF rel THEN [released |-> TRUE, marker |-> m, threw |-> FALSE]
    ELSE LET u == unlinkSync(m)
         IN [released |-> TRUE, marker |-> u.marker,
             threw |-> u.code \notin {"ok", "ENOENT"}]

(* ------------------------- lock-level actions -------------------------- *)
NoRel == [calls |-> 0, threw |-> FALSE, absent |-> FALSE]

LockInit ==
    /\ marker = NoFile
    /\ clock = 1
    /\ pc = [p \in Procs |-> "idle"]
    /\ acqIno = [p \in Procs |-> 0]
    /\ released = [p \in Procs |-> FALSE]
    /\ err = [p \in Procs |-> NoErr]
    /\ sawMarker = [p \in Procs |-> FALSE]
    /\ relLog = [p \in Procs |-> NoRel]
    /\ stale = FALSE
    /\ everFreed = FALSE

\* acquireStoreLock up to and including openSync(lockPath, 'wx')
AcqOpen(p) ==
    /\ pc[p] = "idle"
    /\ clock <= MaxAcq
    /\ sawMarker' = [sawMarker EXCEPT ![p] = Exists(marker)]
    /\ err' = [err EXCEPT ![p] = NoErr]
    /\ IF openSyncWx(marker) = "ok"
       THEN /\ marker' = [ino |-> clock, content |-> Empty]
            /\ acqIno' = [acqIno EXCEPT ![p] = clock]
            /\ clock' = clock + 1
            /\ pc' = [pc EXCEPT ![p] = "opened"]
       ELSE /\ pc' = [pc EXCEPT ![p] = "eexist"]
            /\ UNCHANGED <<marker, acqIno, clock>>
    /\ UNCHANGED <<released, relLog, stale, everFreed>>

\* writeFileSync(fd, lockPayload()); closeSync(fd); released = false; return closure
AcqWrite(p) ==
    /\ pc[p] = "opened"
    /\ marker' = IF marker.ino = acqIno[p]
                 THEN [marker EXCEPT !.content = lockPayload(p, clock)]
                 ELSE marker
    /\ released' = [released EXCEPT ![p] = FALSE]
    /\ relLog' = [relLog EXCEPT ![p] = NoRel]
    /\ pc' = [pc EXCEPT ![p] = "holding"]
    /\ UNCHANGED <<clock, acqIno, err, sawMarker, stale, everFreed>>

\* the EEXIST branch: readStoreLock, then throw 'Store is locked by another process'
AcqEexist(p) ==
    /\ pc[p] = "eexist"
    /\ LET r == lockHeldError(marker)
       IN /\ marker' = r.marker
          /\ err' = [err EXCEPT ![p] = r.err]
    /\ pc' = [pc EXCEPT ![p] = "failed"]
    /\ UNCHANGED <<clock, acqIno, released, sawMarker, relLog, stale, everFreed>>

\* one call of the closure returned to p
Release(p) ==
    /\ pc[p] = "holding"
    /\ relLog[p].calls < MaxRelCalls
    /\ LET r == release(released[p], marker)
       IN /\ marker' = r.marker
          /\ released' = [released EXCEPT ![p] = r.released]
          /\ relLog' = [relLog EXCEPT ![p] =
                 [calls |-> relLog[p].calls + 1, threw |-> r.threw,
                  absent |-> IF relLog[p].calls = 0 THEN ~Exists(marker)
                             ELSE relLog[p].absent]]
          /\ everFreed' = (everFreed \/ (Exists(marker) /\ ~Exists(r.marker)))
          /\ stale' = (stale /\ Exists(r.marker))
    /\ UNCHANGED <<clock, pc, acqIno, err, sawMarker>>

\* the process ends (crash, kill, or plain exit) wherever it is; its closure is lost
Terminate(p) ==
    /\ pc[p] # "idle"
    /\ stale' = (stale \/ (Exists(marker) /\ marker.ino = acqIno[p]))
    /\ pc' = [pc EXCEPT ![p] = "idle"]
    /\ acqIno' = [acqIno EXCEPT ![p] = 0]
    /\ released' = [released EXCEPT ![p] = FALSE]
    /\ relLog' = [relLog EXCEPT ![p] = NoRel]
    /\ err' = [err EXCEPT ![p] = NoErr]
    /\ sawMarker' = [sawMarker EXCEPT ![p] = FALSE]
    /\ UNCHANGED <<marker, clock, everFreed>>

(* ------------------- the inspecting commands (cli.js) ------------------ *)
NotRead == [exists |-> FALSE, null |-> TRUE, info |-> <<>>]
NoOut == [fields |-> {}, lockHeld |-> FALSE, lockInfo |-> <<>>,
          authenticated |-> FALSE]
InspIdle == [cmd |-> "none", pc |-> "idle", at |-> NoFile, lock |-> NotRead,
             out |-> NoOut]

\* mutant of runDoctor's first step: it takes the lock in place of reading it
doctorLockAcquire(m) ==
    [marker |-> IF Exists(m) THEN NoFile ELSE [ino |-> 1, content |-> Empty],
     lock |-> readStoreLock(m)]

\* runDoctor: const lock = readStoreLock(storeDir)
doctorLock(m) == [marker |-> m, lock |-> readStoreLock(m)]

\* runDoctor: the payload object (its lock and authentication fields)
doctorPayload(lock, authenticated) ==
    [fields |-> {"storeDir", "lockHeld", "lockInfo", "authenticated", "connected",
                 "ftsEnabled", "ftsVersion", "queue"},
     lockHeld |-> lock.exists, lockInfo |-> lock.info,
     authenticated |-> authenticated]

\* runAuth, subcommand status: the payload { authenticated, ftsEnabled }
authStatusPayload(authenticated) ==
    [fields |-> {"authenticated", "ftsEnabled"},
     lockHeld |-> FALSE, lockInfo |-> <<>>,
     authenticated |-> authenticated]

InspInit == insp = InspIdle

\* runDoctor up to createServices / runAuth status up to createServices
InspStart(c) ==
    /\ insp.pc = "idle"
    /\ LET r == IF c = "doctor" THEN doctorLock(marker)
                ELSE [marker |-> marker, lock |-> NotRead]
       IN /\ marker' = r.marker
          /\ insp' = [InspIdle EXCEPT !.cmd = c, !.pc = "probe", !.at = marker,
                                      !.lock = r.lock]
    /\ UNCHANGED <<clock, pc, acqIno, released, err, sawMarker, relLog, stale, everFreed>>
    /\ UNCHANGED <<cli, idleVars>>

\* the awaited isAuthorized() (a failure counts as not authenticated), then the report
InspProbe(authRes) ==
    /\ insp.pc = "probe"
    /\ LET authenticated == authRes = "yes"
       IN insp' = [insp EXCEPT !.pc = "cleanup",
                               !.out = IF insp.cmd = "doctor"
                                       THEN doctorPayload(insp.lock, authenticated)
                                       ELSE authStatusPayload(authenticated)]
    /\ UNCHANGED <<lockVars, cli, idleVars>>

\* finally: await messageSyncService.shutdown(); await telegramClient.destroy();
\* the command returns and its process ends
InspCleanup ==
    /\ insp.pc = "cleanup"
    /\ insp' = InspIdle
    /\ UNCHANGED <<lockVars, cli, idleVars>>

InspNext ==
    \/ \E c \in {"doctor", "authStatus"} : InspStart(c)
    \/ \E authRes \in {"yes", "no", "throws"} : InspProbe(authRes)
    \/ InspCleanup

(* ---------------------- the CLI process (cli.js) ------------------------ *)
Cli == 1
Other == 2

\* characters of an --idle-exit value
Digits == <<"0", "1", "2", "3", "4", "5", "6", "7", "8", "9">>
IsDigit(ch) == \E i \in 1..10 : Digits[i] = ch
DigitVal(ch) == (CHOOSE i \in 1..10 : Digits[i] = ch) - 1

\* the /i flag of the pattern: the unit letters match in either case
Lower(ch) == CASE ch = "M" -> "m" [] ch = "S" -> "s" [] ch = "H" -> "h" [] OTHER -> ch

RECURSIVE TrimLeft(_)
TrimLeft(str) ==
    IF str # <<>> /\ Head(str) = " " THEN TrimLeft(Tail(str)) ELSE str

RECURSIVE TrimRight(_)
TrimRight(str) ==
    IF str # <<>> /\ str[Len(str)] = " " THEN TrimRight(SubSeq(str, 1, Len(str) - 1))
    ELSE str

\* String.prototype.trim
Trim(str) == TrimRight(TrimLeft(str))

RECURSIVE LeadingDigits(_)
LeadingDigits(str) ==
    IF str # <<>> /\ IsDigit(Head(str)) THEN 1 + LeadingDigits(Tail(str)) ELSE 0

RECURSIVE Number(_)
Number(ds) ==
    IF ds = <<>> THEN 0 ELSE 10 * Number(SubSeq(ds, 1, Len(ds) - 1)) + DigitVal(ds[Len(ds)])

Units == {<<>>, <<"m", "s">>, <<"s">>, <<"m">>, <<"h">>}

\* mutant of parseDuration: an unparsable value falls back to 30 s
parseDurationLenient(value) ==
    LET raw == Trim(value)
        k == LeadingDigits(raw)
        unit == [i \in 1..(Len(raw) - k) |-> Lower(raw[k + i])]
    IN IF raw = <<>> THEN [kind |-> "null", ms |-> 0]
       ELSE IF k = 0 \/ unit \notin Units THEN [kind |-> "ok", ms |-> 30000]
       ELSE [kind |-> "ok", ms |-> Number(SubSeq(raw, 1, k)) * 1000]

\* parseDuration: null for a blank value, throws unless /^(\d+)(ms|s|m|h)?$/i matches
parseDuration(value) ==
    LET raw == Trim(value)
        k == LeadingDigits(raw)
        unit == [i \in 1..(Len(raw) - k) |-> Lower(raw[k + i])]
        amount == Number(SubSeq(raw, 1, k))
    IN IF raw = <<>> THEN [kind |-> "null", ms |-> 0]
       ELSE IF k = 0 \/ unit \notin Units THEN [kind |-> "throw", ms |-> 0]
       ELSE [kind |-> "ok",
             ms |-> CASE unit = <<"m", "s">> -> amount
                      [] unit = <<"s">> -> amount * 1000
                      [] unit = <<"m">> -> amount * 60 * 1000
                      [] unit = <<"h">> -> amount * 60 * 60 * 1000
                      [] OTHER -> amount * 1000]

\* flags['idle-exit'] || '30s'  (<<>> stands for a flag that is absent or empty)
idleExitArg(v) == IF v = <<>> THEN <<"3", "0", "s">> ELSE v

\* the --idle-exit values tried
IdleExitInputs ==
    { <<>>, <<"2", "s">>, <<"5", "0", "0", "M", "S">>, <<" ">>, <<"2", "x">>,
      <<"s">> }

\* mutant of the mode selection: --once wins over --follow
followOnceWins(once, follow) == ~once

\* runSync: const follow = flags.follow || !flags.once
followMode(once, follow) == follow \/ ~once

\* the command lines that take the store lock
Commands ==
    {[name |-> "sync", sub |-> "", once |-> o, follow |-> f, idle |-> v] :
        o \in BOOLEAN, f \in BOOLEAN, v \in IdleExitInputs}
    \cup {[name |-> "auth", sub |-> "", once |-> FALSE, follow |-> f, idle |-> <<>>] :
        f \in BOOLEAN}
    \cup {[name |-> "auth", sub |-> "logout", once |-> FALSE, follow |-> f, idle |-> <<>>] :
        f \in BOOLEAN}

CleanupSteps == {"shutdown", "destroy", "release"}

NoCmd == [name |-> "none", sub |-> "", once |-> FALSE, follow |-> FALSE, idle |-> <<>>]

CliOff == [cmd |-> NoCmd, pc |-> "off", svc |-> "none", client |-> "none",
           follow |-> FALSE, idleExitMs |-> 0, handlers |-> FALSE,
           stopping |-> FALSE, ci |-> 0, thrown |-> "none",
           exit |-> "off", signals |-> 0, log |-> <<>>, report |-> <<>>,
           run |-> 0, calls |-> [s \in CleanupSteps |-> 0]]

\* mutant of the shutdown handler: the lock is released first
handlerReleaseFirst == <<"release", "shutdown", "destroy">>

\* the handler given to withShutdown by runSync and runAuth
shutdownHandlerSteps == <<"shutdown", "destroy", "release">>

\* mutant of the finally blocks: the lock is released first
finallyReleaseFirst == <<"release", "shutdown", "destroy">>

\* the finally blocks of runSync and runAuth
finallySteps == <<"shutdown", "destroy", "release">>

\* the steps that are awaited; release() is a plain call
AwaitSteps == {"shutdown", "destroy"}

\* the steps in force: the handler's once it runs, the finally block's otherwise
StepsOf(c) == IF c.pc \in {"following", "handler"} THEN shutdownHandlerSteps
              ELSE finallySteps

\* index of the first awaited step of seq at or after i (Len(seq) + 1 if none)
NextAwait(seq, i) ==
    IF \E j \in i..Len(seq) : seq[j] \in AwaitSteps
    THEN CHOOSE j \in i..Len(seq) :
            /\ seq[j] \in AwaitSteps
            /\ \A k \in i..(j - 1) : seq[k] \notin AwaitSteps
    ELSE Len(seq) + 1

RunsRelease(seq, i) == \E j \in i..(NextAwait(seq, i) - 1) : seq[j] = "release"

\* mutant of the finally condition: cleanup only when the try block completed
finallyCleansOnSuccess(c) == c.cmd.sub = "logout" \/ (~c.follow /\ c.thrown = "none")

\* if (!follow) / if (!flags.follow) guarding the finally blocks; logout has no guard
finallyCleans(c) == c.cmd.sub = "logout" \/ ~c.follow

\* the command ends: process.exit(code) or the event loop running empty
Exit(c, code) == [c EXCEPT !.pc = "exited", !.exit = code, !.ci = 0,
                           !.log = Append(c.log, "exit" \o code)]

\* the end of the handler (finally: process.exit(0)) or of the finally block
\* (return, or the pending error reaching main's catch: process.exit(1))
Finish(c) ==
    IF c.pc = "handler" THEN Exit(c, "0")
    ELSE IF c.thrown = "none" THEN Exit(c, "0") ELSE Exit(c, "1")

\* run the plain steps of the cleanup from index i and start the next awaited one
RunSteps(c, i) ==
    LET seq == StepsOf(c)
        j == NextAwait(seq, i)
        last == IF j <= Len(seq) THEN j ELSE Len(seq)
        c1 == [c EXCEPT !.log = c.log \o [k \in 1..(j - i) |-> seq[i + k - 1]],
                        !.calls = [s \in CleanupSteps |->
                                     c.calls[s] + Cardinality({k \in i..last : seq[k] = s})]]
    IN /\ IF RunsRelease(seq, i) THEN Release(Cli) ELSE UNCHANGED lockVars
       /\ cli' = IF j <= Len(seq) THEN [c1 EXCEPT !.ci = j] ELSE Finish(c1)

\* leave the try block with `thrown` pending ("none": normal completion)
Leave(c, thrown) ==
    LET c1 == [c EXCEPT !.thrown = thrown]
    IN IF finallyCleans(c1) THEN RunSteps([c1 EXCEPT !.pc = "finally"], 1)
       ELSE /\ UNCHANGED lockVars
            /\ cli' = IF thrown = "none" THEN [c1 EXCEPT !.pc = "following"]
                      ELSE Exit(c1, "1")

(* ------------- the job queue (message-sync-service.js, spec 4.2) ------- *)
Null == -1
PollMs == 500

\* the clock advances in steps of half a polling interval
Granule == PollMs \div 2
MaxTime == MaxTicks * Granule

Count(jobs, st) == Cardinality({i \in 1..Len(jobs) : jobs[i] = st})

\* service.getQueueStats(): the counts by state and the processing flag
getQueueStats(q) ==
    [pending |-> Count(q.jobs, "pending"), in_progress |-> Count(q.jobs, "in_progress"),
     idle |-> Count(q.jobs, "idle"), error |-> Count(q.jobs, "error"),
     processing |-> q.processing]

\* no pending job, no in_progress job, the worker not processing
Quiescent(q) ==
    /\ ~q.processing
    /\ \A i \in 1..Len(q.jobs) : q.jobs[i] \notin {"pending", "in_progress"}

\* anchors are timestamps: Newest for a job that has fetched nothing, smaller is
\* older, 0 is the job's min_date
\* own (history): "run" for a job started by the running process, "rerun" if it
\* had been left in_progress before; "cut" / "left" for a job whose process was
\* killed / ended while the job was in_progress, until it is started again
NoQueue == [jobs |-> <<>>, anchor |-> <<>>, own |-> <<>>, processing |-> FALSE,
            work |-> Null]

\* a store holding the job rows `jobs`, none of them started yet
QueueOf(jobs) == [NoQueue EXCEPT !.jobs = jobs,
                                 !.anchor = [i \in 1..Len(jobs) |-> Newest],
                                 !.own = [i \in 1..Len(jobs) |-> "new"]]

IdlOff == [now |-> 0, wpc |-> "off", wake |-> 0, idleStart |-> Null, window |-> 0,
           start |-> 0, ret |-> Null, lastBusy |-> 0, seen |-> TRUE,
           quietSince |-> Null, sawBusy |-> FALSE, polled |-> <<>>,
           touched |-> FALSE]

IdleOff == queue = NoQueue /\ idl = IdlOff

Waiting == idl.wpc \in {"call", "sleeping"}

Returned == idl.wpc = "returned"

\* the history of the wait after the queue has become q2 at the current instant
Observe(q2) ==
    IF idl.wpc = "returned" THEN [idl EXCEPT !.touched = TRUE]
    ELSE IF ~Waiting THEN idl
    ELSE [idl EXCEPT !.lastBusy = IF Quiescent(q2) THEN @ ELSE idl.now,
                     !.seen = IF Quiescent(queue) /\ ~Quiescent(q2)
                              THEN idl.wpc = "call" ELSE @]

\* an external request adds a job
AddJob ==
    /\ Len(queue.jobs) < MaxJobs
    /\ LET q2 == [queue EXCEPT !.jobs = Append(@, "pending"),
                                !.anchor = Append(@, Newest), !.own = Append(@, "new")]
       IN queue' = q2 /\ idl' = Observe(q2)

Started(own) == IF own \in {"cut", "left"} THEN "rerun" ELSE "run"

\* mutant of the pick: any pending job, whatever else is in progress
StartJobAny ==
    /\ \E i \in 1..Len(queue.jobs) :
          /\ queue.jobs[i] = "pending"
          /\ LET q2 == [queue EXCEPT !.jobs[i] = "in_progress", !.own[i] = Started(@),
                                      !.processing = TRUE, !.work = Null]
             IN queue' = q2 /\ idl' = Observe(q2)

\* pending -> in_progress: the oldest pending job, when no job is in progress
StartJob ==
    /\ Count(queue.jobs, "in_progress") = 0
    /\ Count(queue.jobs, "pending") > 0
    /\ LET i == CHOOSE i \in 1..Len(queue.jobs) :
                   /\ queue.jobs[i] = "pending"
                   /\ \A k \in 1..(i - 1) : queue.jobs[k] # "pending"
           q2 == [queue EXCEPT !.jobs[i] = "in_progress", !.own[i] = Started(@),
                               !.processing = TRUE, !.work = Null]
       IN queue' = q2 /\ idl' = Observe(q2)

\* in_progress -> idle (exhausted), error (fatal) or pending (transient: requeue)
FinishJob(outcome) ==
    /\ \E i \in 1..Len(queue.jobs) :
          /\ queue.jobs[i] = "in_progress"
          /\ LET q2 == [queue EXCEPT !.jobs[i] = outcome, !.own[i] = "new",
                                      !.work = Null]
             IN queue' = q2 /\ idl' = Observe(q2)

\* error -> pending: an explicit retry request
RetryJob ==
    /\ \E i \in 1..Len(queue.jobs) :
          /\ queue.jobs[i] = "error"
          /\ LET q2 == [queue EXCEPT !.jobs[i] = "pending"]
             IN queue' = q2 /\ idl' = Observe(q2)

\* the worker loop ends: processing = false
WorkerStop ==
    /\ queue.processing
    /\ Count(queue.jobs, "in_progress") = 0
    /\ LET q2 == [queue EXCEPT !.processing = FALSE]
       IN queue' = q2 /\ idl' = Observe(q2)

InProgress(q) == {i \in 1..Len(q.jobs) : q.jobs[i] = "in_progress"}

\* mutant of the paging: every fetch starts from the newest point again
fetchFromStart(q, i) == Newest + 1

\* the before_anchor of fetchHistory: the job's persisted anchor
fetchFrom(q, i) == q.anchor[i]

\* the worker fetches a batch strictly older than the anchor; `work` is the oldest
\* message of the batch, held in memory until the job row is persisted
BatchFetch ==
    /\ queue.processing /\ queue.work = Null
    /\ \E i \in InProgress(queue) : \E a \in 0..(fetchFrom(queue, i) - 1) :
          LET q2 == [queue EXCEPT !.work = a]
          IN queue' = q2 /\ idl' = Observe(q2)

\* after the batch: the anchor advances to the oldest message seen and the job row
\* is persisted
BatchPersist ==
    /\ queue.work # Null
    /\ \E i \in InProgress(queue) :
          LET q2 == [queue EXCEPT !.anchor[i] = queue.work, !.work = Null]
          IN queue' = q2 /\ idl' = Observe(q2)

\* mutant of the restart reset: the job is rewound to its start
resumePendingJobsFromStart(q) ==
    [q EXCEPT !.jobs = [i \in 1..Len(q.jobs) |->
                          IF q.jobs[i] = "in_progress" THEN "pending" ELSE q.jobs[i]],
              !.anchor = [i \in 1..Len(q.jobs) |->
                          IF q.jobs[i] = "in_progress" THEN Newest ELSE q.anchor[i]]]

\* resumePendingJobs(): a job left in_progress by a prior process goes back to
\* pending, its anchor kept
resumePendingJobs(q) ==
    [q EXCEPT !.jobs = [i \in 1..Len(q.jobs) |->
                          IF q.jobs[i] = "in_progress" THEN "pending" ELSE q.jobs[i]]]

(* ----------------------------- waitForIdle ----------------------------- *)
\* JavaScript's !idleStart: null and 0 are both falsy
Falsy(x) == x = Null \/ x = 0

\* mutant of the loop body: a busy poll does not reset idleStart
pollStepNoReset(stats, idleStart, t, idleExitMs) ==
    LET is == IF Falsy(idleStart) THEN t ELSE idleStart
    IN IF ~stats.processing /\ stats.pending + stats.in_progress = 0
       THEN [idleStart |-> is, done |-> t - is >= idleExitMs]
       ELSE [idleStart |-> idleStart, done |-> FALSE]

\* mutant of the loop body: > in place of >=
pollStepStrict(stats, idleStart, t, idleExitMs) ==
    LET is == IF Falsy(idleStart) THEN t ELSE idleStart
    IN IF ~stats.processing /\ stats.pending + stats.in_progress = 0
       THEN [idleStart |-> is, done |-> t - is > idleExitMs]
       ELSE [idleStart |-> Null, done |-> FALSE]

\* mutant of the loop body: the processing flag is not looked at
pollStepJobsOnly(stats, idleStart, t, idleExitMs) ==
    LET is == IF Falsy(idleStart) THEN t ELSE idleStart
    IN IF stats.pending + stats.in_progress = 0
       THEN [idleStart |-> is, done |-> t - is >= idleExitMs]
       ELSE [idleStart |-> Null, done |-> FALSE]

\* one iteration of waitForIdle's loop at time t, up to the return or the delay
pollStep(stats, idleStart, t, idleExitMs) ==
    LET active == stats.pending + stats.in_progress
        is == IF Falsy(idleStart) THEN t ELSE idleStart
    IN IF ~stats.processing /\ active = 0
       THEN [idleStart |-> is, done |-> t - is >= idleExitMs]
       ELSE [idleStart |-> Null, done |-> FALSE]

\* the idle windows tried: those the --idle-exit values parse to, up to 2000 ms
\* (parseDuration's null compares like 0 in Date.now() - idleStart >= idleExitMs)
IdleWindows ==
    {d.ms : d \in {x \in {parseDuration(idleExitArg(v)) : v \in IdleExitInputs} :
                      x.kind # "throw" /\ x.ms <= MaxWindow}}

\* waitForIdle is called, or the delay(500) of the previous iteration is over:
\* getQueueStats(), the idle test, return or await delay(500)
Poll ==
    /\ Waiting /\ idl.now = idl.wake
    /\ LET r == pollStep(getQueueStats(queue), idl.idleStart, idl.now, idl.window)
           quiet == Quiescent(queue)
       IN idl' = [idl EXCEPT !.idleStart = r.idleStart,
                             !.wpc = IF r.done THEN "returned" ELSE "sleeping",
                             !.ret = IF r.done THEN idl.now ELSE @,
                             !.wake = IF r.done THEN @ ELSE idl.now + PollMs,
                             !.seen = IF quiet THEN @ ELSE TRUE,
                             !.sawBusy = IF quiet THEN @ ELSE TRUE,
                             !.polled = <<getQueueStats(queue)>>,
                             !.quietSince = IF ~quiet THEN Null
                                            ELSE IF @ = Null THEN idl.now ELSE @]
    /\ UNCHANGED queue

\* time passes (never past a poll that is due), up to `limit`
TickTo(limit) ==
    /\ Waiting /\ idl.now < idl.wake
    /\ idl.now + Granule <= limit
    /\ idl' = [idl EXCEPT !.now = @ + Granule,
                          !.lastBusy = IF Quiescent(queue) THEN @ ELSE idl.now + Granule]
    /\ UNCHANGED queue

Tick == TickTo(MaxTime)

IdleInit ==
    /\ LockInit /\ InspInit /\ cli = CliOff
    /\ \E jobs \in {<<>>, <<"pending">>} : queue = QueueOf(jobs)
    /\ \E w \in IdleWindows :
          idl = [IdlOff EXCEPT !.now = Granule, !.wpc = "call", !.wake = Granule,
                               !.start = Granule, !.lastBusy = Granule, !.window = w]

IdleNext ==
    \/ AddJob /\ UNCHANGED <<lockVars, insp, cli>>
    \/ StartJob /\ UNCHANGED <<lockVars, insp, cli>>
    \/ \E o \in {"idle", "error", "pending"} :
          FinishJob(o) /\ UNCHANGED <<lockVars, insp, cli>>
    \/ RetryJob /\ UNCHANGED <<lockVars, insp, cli>>
    \/ WorkerStop /\ UNCHANGED <<lockVars, insp, cli>>
    \/ Poll /\ UNCHANGED <<lockVars, insp, cli>>
    \/ Tick /\ UNCHANGED <<lockVars, insp, cli>>

IdleSpec == IdleInit /\ [][IdleNext]_vars

(* ----------------------- the CLI process: actions --------------------- *)
Running == cli.exit = "running"

\* main -> runSync / runAuth up to and including the exclusive create
CliAcqOpen ==
    /\ Running /\ cli.pc = "acquire"
    /\ AcqOpen(Cli)
    /\ UNCHANGED <<cli, insp, idleVars>>

\* acquireStoreLock returns the closure
CliAcqWrite ==
    /\ Running /\ cli.pc = "acquire"
    /\ AcqWrite(Cli)
    /\ cli' = [cli EXCEPT !.pc = "setup", !.log = Append(cli.log, "acquired")]
    /\ UNCHANGED <<insp, idleVars>>

\* acquireStoreLock throws: main's catch writes the error and calls process.exit(1)
CliAcqEexist ==
    /\ Running /\ cli.pc = "acquire"
    /\ AcqEexist(Cli)
    /\ cli' = Exit([cli EXCEPT !.thrown = "LockHeld"], "1")
    /\ UNCHANGED <<insp, idleVars>>

\* createServices; runSync: parseDuration(flags['idle-exit'] || '30s') and the mode
CliSetup ==
    /\ Running /\ cli.pc = "setup"
    /\ LET d == parseDuration(idleExitArg(cli.cmd.idle))
           c1 == [cli EXCEPT !.svc = "up", !.client = "up",
                             !.log = Append(cli.log, "services")]
       IN cli' = IF cli.cmd.name = "sync"
                 THEN IF d.kind = "throw"
                      THEN Exit([c1 EXCEPT !.thrown = "InvalidDuration"], "1")
                      ELSE [c1 EXCEPT !.pc = "authcheck", !.idleExitMs = d.ms,
                                      !.follow = followMode(cli.cmd.once, cli.cmd.follow)]
                 ELSE [c1 EXCEPT !.pc = "login",
                                 !.follow = (cli.cmd.sub = "" /\ cli.cmd.follow)]
    /\ UNCHANGED <<lockVars, insp, idleVars>>

\* runSync: await telegramClient.isAuthorized().catch(() => false)
CliAuthCheck(r) ==
    /\ Running /\ cli.pc = "authcheck"
    /\ IF r = "yes"
       THEN /\ cli' = [cli EXCEPT !.pc = "refresh", !.log = Append(cli.log, "authorized")]
            /\ UNCHANGED lockVars
       ELSE Leave(cli, "NotAuthenticated")
    /\ UNCHANGED <<insp, idleVars>>

\* runAuth: await telegramClient.login() (its result is ignored by logout)
CliLogin(r) ==
    /\ Running /\ cli.pc = "login"
    /\ IF r = "throws" THEN Leave(cli, "StepFailed")
       ELSE IF cli.cmd.sub = "logout"
       THEN /\ cli' = [cli EXCEPT !.pc = "logout", !.log = Append(cli.log, "login")]
            /\ UNCHANGED lockVars
       ELSE IF r = "yes"
       THEN /\ cli' = [cli EXCEPT !.pc = "refresh", !.log = Append(cli.log, "login")]
            /\ UNCHANGED lockVars
       ELSE Leave(cli, "LoginFailed")
    /\ UNCHANGED <<insp, idleVars>>

\* runAuth logout: await telegramClient.client.logout(); report
CliLogout(r) ==
    /\ Running /\ cli.pc = "logout"
    /\ IF r = "ok" THEN Leave([cli EXCEPT !.log = Append(cli.log, "logout")], "none")
       ELSE Leave(cli, "StepFailed")
    /\ UNCHANGED <<insp, idleVars>>

\* await refreshChannelsFromDialogs(); runSync: resumePendingJobs();
\* runAuth without --follow: report
CliRefresh(r) ==
    /\ Running /\ cli.pc = "refresh"
    /\ IF r # "ok" THEN Leave(cli, "StepFailed")
       ELSE IF cli.cmd.name = "sync"
       THEN /\ cli' = [cli EXCEPT !.pc = IF cli.follow THEN "startUpdates" ELSE "idlewait",
                                  !.log = cli.log \o <<"refreshed", "resumed">>]
            /\ UNCHANGED lockVars
       ELSE IF cli.follow
       THEN /\ cli' = [cli EXCEPT !.pc = "startUpdates",
                                  !.log = Append(cli.log, "refreshed")]
            /\ UNCHANGED lockVars
       ELSE Leave([cli EXCEPT !.log = cli.log \o <<"refreshed", "report">>], "none")
    /\ queue' = IF r = "ok" /\ cli.cmd.name = "sync" THEN resumePendingJobs(queue)
                ELSE queue
    /\ UNCHANGED <<insp, idl>>

\* follow mode: await startUpdates(); startRealtimeSync(); (runAuth: resumePendingJobs();)
\* withShutdown(...) installs the signal handlers; return
CliStartUpdates(r) ==
    /\ Running /\ cli.pc = "startUpdates"
    /\ IF r # "ok" THEN Leave(cli, "StepFailed")
       ELSE Leave([cli EXCEPT !.handlers = TRUE,
                              !.log = cli.log \o
                                 (IF cli.cmd.name = "sync"
                                  THEN <<"updates", "realtime", "handlers">>
                                  ELSE <<"updates", "realtime", "resumed", "handlers">>)],
                  "none")
    /\ queue' = IF r = "ok" /\ cli.cmd.name = "auth" THEN resumePendingJobs(queue)
                ELSE queue
    /\ UNCHANGED <<insp, idl>>

\* once mode: await waitForIdle(...) returns, from a poll that saw the queue
\* quiescent; getQueueStats(); report
CliIdleWait ==
    /\ Running /\ cli.pc = "idlewait"
    /\ Quiescent(queue)
    /\ Leave([cli EXCEPT !.log = cli.log \o <<"idle", "report">>,
                          !.report = <<getQueueStats(queue)>>], "none")
    /\ UNCHANGED <<insp, idleVars>>

\* the awaited step of a cleanup (finally block or shutdown handler) settles
CliCleanupStep(r) ==
    /\ Running /\ cli.pc \in {"finally", "handler"} /\ cli.ci > 0
    /\ LET step == StepsOf(cli)[cli.ci]
       IN IF r = "ok"
          THEN RunSteps([cli EXCEPT !.svc = IF step = "shutdown" THEN "down" ELSE @,
                                    !.client = IF step = "destroy" THEN "destroyed" ELSE @,
                                    !.log = Append(cli.log, step)],
                        cli.ci + 1)
          ELSE /\ UNCHANGED lockVars
               /\ cli' = LET c1 == [cli EXCEPT !.log = Append(cli.log, step \o "_failed")]
                         IN IF cli.pc = "handler" THEN Exit(c1, "0")
                            ELSE Exit([c1 EXCEPT !.thrown = "StepFailed"], "1")
    /\ UNCHANGED <<insp, idleVars>>

\* mutant of stop(): no `if (stopping) return`
stopReturnsNever(stopping) == FALSE

\* stop(): if (stopping) return
stopReturns(stopping) == stopping

\* SIGINT / SIGTERM: stop() when withShutdown has installed it, else the default
\* disposition ends the process at once
Signal ==
    /\ Running
    /\ cli.signals < MaxSignals
    /\ LET c1 == [cli EXCEPT !.signals = cli.signals + 1]
       IN IF ~cli.handlers
          THEN /\ cli' = [c1 EXCEPT !.pc = "exited", !.exit = "signal",
                                    !.log = Append(cli.log, "killed")]
               /\ UNCHANGED lockVars
          ELSE LET c2 == [c1 EXCEPT !.log = Append(cli.log, "signal")]
               IN IF stopReturns(cli.stopping)
                  THEN cli' = c2 /\ UNCHANGED lockVars
                  ELSE RunSteps([c2 EXCEPT !.stopping = TRUE, !.pc = "handler"], 1)
    /\ UNCHANGED <<insp, idleVars>>

CmdInit ==
    /\ insp = InspIdle
    /\ IdleOff
    /\ \E c \in Commands :
          cli = [CliOff EXCEPT !.cmd = c, !.pc = "acquire", !.exit = "running"]
    /\ \E held \in BOOLEAN :
          /\ marker = IF held THEN [ino |-> 1, content |-> lockPayload(Other, 1)] ELSE NoFile
          /\ clock = IF held THEN 2 ELSE 1
          /\ pc = [p \in Procs |-> IF held /\ p = Other THEN "holding" ELSE "idle"]
          /\ acqIno = [p \in Procs |-> IF held /\ p = Other THEN 1 ELSE 0]
    /\ released = [p \in Procs |-> FALSE]
    /\ err = [p \in Procs |-> NoErr]
    /\ sawMarker = [p \in Procs |-> FALSE]
    /\ relLog = [p \in Procs |-> NoRel]
    /\ stale = FALSE
    /\ everFreed = FALSE

CmdNext ==
    \/ CliAcqOpen
    \/ CliAcqWrite
    \/ CliAcqEexist
    \/ CliSetup
    \/ \E r \in {"yes", "no", "throws"} : CliAuthCheck(r)
    \/ \E r \in {"yes", "no", "throws"} : CliLogin(r)
    \/ \E r \in {"ok", "throws"} : CliLogout(r)
    \/ \E r \in {"ok", "throws"} : CliRefresh(r)
    \/ \E r \in {"ok", "throws"} : CliStartUpdates(r)
    \/ CliIdleWait
    \/ \E r \in {"ok", "throws"} : CliCleanupStep(r)
    \/ Signal

CmdSpec == CmdInit /\ [][CmdNext]_vars

(* ------------- sync --once from waitForIdle to the end of the run ------- *)
\* runSync: the second getQueueStats() after waitForIdle has returned, the report,
\* then the finally block
CliReport ==
    /\ Running /\ cli.pc = "idlewait" /\ Returned
    /\ Leave([cli EXCEPT !.log = cli.log \o <<"idle", "report">>,
                          !.report = <<getQueueStats(queue)>>], "none")
    /\ UNCHANGED <<insp, idleVars>>

\* the wait can always run to its end: the clock goes on for a full window and a
\* polling interval after the last moment at which the queue may change
OnceHorizon == MaxTime + MaxWindow + PollMs

\* the queue is followed up to the report and while the clock is within MaxTime
Active == cli.pc = "idlewait" /\ idl.now <= MaxTime

\* a worker loop left without a job in progress has not ended yet
WorkerEnding == queue.processing /\ Count(queue.jobs, "in_progress") = 0

OncePoll == Poll /\ UNCHANGED <<lockVars, insp, cli>>
\* (the clock passes MaxTime only after such a worker loop has ended)
OnceTick ==
    /\ idl.now < MaxTime \/ ~WorkerEnding
    /\ TickTo(OnceHorizon)
    /\ UNCHANGED <<lockVars, insp, cli>>
OnceWorkerStop == cli.pc = "idlewait" /\ WorkerStop /\ UNCHANGED <<lockVars, insp, cli>>
OnceCleanup == \E r \in {"ok", "throws"} : CliCleanupStep(r)

\* sync --once [--idle-exit v] has acquired the lock, created the services, passed
\* the authorization check, refreshed the dialogs and resumed the pending jobs
OnceInit ==
    /\ insp = InspIdle
    /\ marker = [ino |-> 1, content |-> lockPayload(Cli, 1)]
    /\ clock = 2
    /\ pc = [p \in Procs |-> IF p = Cli THEN "holding" ELSE "idle"]
    /\ acqIno = [p \in Procs |-> IF p = Cli THEN 1 ELSE 0]
    /\ released = [p \in Procs |-> FALSE]
    /\ err = [p \in Procs |-> NoErr]
    /\ sawMarker = [p \in Procs |-> FALSE]
    /\ relLog = [p \in Procs |-> NoRel]
    /\ stale = FALSE
    /\ everFreed = FALSE
    /\ \E jobs \in {<<>>, <<"pending">>} : queue = QueueOf(jobs)
    /\ \E v \in IdleExitInputs :
          LET d == parseDuration(idleExitArg(v))
          IN /\ d.kind # "throw" /\ d.ms <= MaxWindow
             /\ cli = [CliOff EXCEPT
                         !.cmd = [name |-> "sync", sub |-> "", once |-> TRUE,
                                  follow |-> FALSE, idle |-> v],
                         !.pc = "idlewait", !.exit = "running",
                         !.svc = "up", !.client = "up", !.idleExitMs = d.ms,
                         !.follow = followMode(TRUE, FALSE),
                         !.log = <<"acquired", "services", "authorized", "refreshed",
                                   "resumed">>]
             /\ idl = [IdlOff EXCEPT !.now = Granule, !.wpc = "call", !.wake = Granule,
                                     !.start = Granule, !.lastBusy = Granule,
                                     !.window = d.ms]

OnceNext ==
    \/ Active /\ AddJob /\ UNCHANGED <<lockVars, insp, cli>>
    \/ Active /\ StartJob /\ UNCHANGED <<lockVars, insp, cli>>
    \/ \E o \in {"idle", "error", "pending"} :
          Active /\ FinishJob(o) /\ UNCHANGED <<lockVars, insp, cli>>
    \/ Active /\ RetryJob /\ UNCHANGED <<lockVars, insp, cli>>
    \/ OnceWorkerStop
    \/ OncePoll
    \/ OnceTick
    \/ CliReport
    \/ OnceCleanup

\* timers fire and ready continuations run; the worker loop ends when it has no job
OnceSpec ==
    /\ OnceInit /\ [][OnceNext]_vars
    /\ WF_vars(OncePoll) /\ WF_vars(OnceTick) /\ WF_vars(OnceWorkerStop)
    /\ WF_vars(CliReport) /\ WF_vars(OnceCleanup)

(* --------------------- specification: the store lock ------------------- *)
Init == LockInit /\ InspInit /\ cli = CliOff /\ IdleOff

ProcNext ==
    \/ \E p \in Procs : AcqOpen(p) /\ UNCHANGED <<insp, cli, idleVars>>
    \/ \E p \in Procs : AcqWrite(p) /\ UNCHANGED <<insp, cli, idleVars>>
    \/ \E p \in Procs : AcqEexist(p) /\ UNCHANGED <<insp, cli, idleVars>>
    \/ \E p \in Procs : Release(p) /\ UNCHANGED <<insp, cli, idleVars>>
    \/ \E p \in Procs : Terminate(p) /\ UNCHANGED <<insp, cli, idleVars>>

Next == ProcNext \/ InspNext

Spec == Init /\ [][Next]_vars

\* someone outside the program clears the marker (rm LOCK)
ExternalClear ==
    /\ Exists(marker)
    /\ marker' = NoFile
    /\ stale' = FALSE
    /\ everFreed' = TRUE
    /\ UNCHANGED <<clock, pc, acqIno, released, err, sawMarker, relLog, insp, cli, idleVars>>

ExtNext == Next \/ ExternalClear

ExtSpec == Init /\ [][ExtNext]_vars

(* ------------- sync sessions over the persisted job rows --------------- *)
\* the scheduler runs from resumePendingJobs() until the command leaves its try block
SchedOn == Running /\ cli.pc \in {"startUpdates", "idlewait", "following"}

JobCommands == {c \in Commands : c.name = "sync" /\ ~c.follow /\ c.idle = <<>>}

\* the worker's memory is gone with its process; the job rows stay
Abandon(q, how) ==
    [q EXCEPT !.processing = FALSE, !.work = Null,
              !.own = [i \in 1..Len(q.jobs) |->
                         IF q.jobs[i] = "in_progress" /\ q.own[i] \in {"run", "rerun"}
                         THEN how ELSE q.own[i]]]

\* the process is killed (SIGKILL, power loss): nothing of it runs any more, what
\* it held in memory is gone, the store directory stays as it is
Crash ==
    /\ Running
    /\ cli' = [cli EXCEPT !.exit = "crash", !.log = Append(cli.log, "crashed")]
    /\ queue' = Abandon(queue, "cut")
    /\ UNCHANGED <<lockVars, insp, idl>>

\* the next sync command is started on the same store directory
Restart ==
    /\ ~Running /\ cli.run < MaxRuns
    /\ cli' = [CliOff EXCEPT !.cmd = cli.cmd, !.pc = "acquire", !.exit = "running",
                             !.run = cli.run + 1]
    /\ IF pc[Cli] # "idle" THEN Terminate(Cli) ELSE UNCHANGED lockVars
    /\ queue' = Abandon(queue, "left")
    /\ UNCHANGED <<insp, idl>>

JobInit ==
    /\ LockInit /\ InspInit
    /\ idl = IdlOff
    /\ \E n \in 1..StoredJobs : queue = QueueOf([i \in 1..n |-> "pending"])
    /\ \E c \in JobCommands :
          cli = [CliOff EXCEPT !.cmd = c, !.pc = "acquire", !.exit = "running",
                               !.run = 1]

JobNext ==
    \/ CliAcqOpen
    \/ CliAcqWrite
    \/ CliAcqEexist
    \/ CliSetup
    \/ \E r \in {"yes", "no", "throws"} : CliAuthCheck(r)
    \/ \E r \in {"ok", "throws"} : CliRefresh(r)
    \/ \E r \in {"ok", "throws"} : CliStartUpdates(r)
    \/ CliIdleWait
    \/ CliCleanupStep("ok")
    \/ SchedOn /\ StartJob /\ UNCHANGED <<lockVars, insp, cli>>
    \/ SchedOn /\ BatchFetch /\ UNCHANGED <<lockVars, insp, cli>>
    \/ SchedOn /\ BatchPersist /\ UNCHANGED <<lockVars, insp, cli>>
    \/ \E o \in {"idle", "error", "pending"} :
          SchedOn /\ FinishJob(o) /\ UNCHANGED <<lockVars, insp, cli>>
    \/ SchedOn /\ WorkerStop /\ UNCHANGED <<lockVars, insp, cli>>
    \/ Crash
    \/ Restart
    \/ stale /\ ExternalClear

JobSpec == JobInit /\ [][JobNext]_vars

(* ------------------------------- claims -------------------------------- *)
\* the processes inside a successful, not yet released acquisition
Owners == {p \in Procs : pc[p] = "opened" \/ (pc[p] = "holding" /\ ~released[p])}

\* C1: with no actor outside the program touching the marker, at most one process
\* at a time owns a successful, not yet released acquisition of the store
\* directory, and the marker on disk is the one that process created.
C1_MutualExclusion ==
    /\ Cardinality(Owners) <= 1
    /\ \A p \in Owners : Exists(marker) /\ marker.ino = acqIno[p]

\* C1 witness: one process holds the lock while another one's attempt has failed
C1_Witness ==
    \E p, q \in Procs : /\ p # q
                        /\ pc[p] = "holding" /\ ~released[p]
                        /\ pc[q] = "failed"

Passed(p) == pc[p] \in {"opened", "eexist", "holding", "failed"}

\* C2: an attempt fails with the lock-held error exactly when the marker existed
\* at its exclusive create; of the attempts made on a directory that started
\* unlocked (nothing removed since, the creator still running) exactly one
\* succeeded and every other one got the lock-held error; and a failing attempt
\* leaves the marker (presence, inode, recorded owner) as it was.
C2_LockHeldIff ==
    /\ [](\A p \in Procs :
            /\ pc[p] \in {"eexist", "failed"} => sawMarker[p]
            /\ pc[p] = "failed" => err[p].kind = "LockHeld"
            /\ pc[p] \in {"opened", "holding"} => ~sawMarker[p] /\ err[p] = NoErr)
    /\ []((~everFreed /\ ~stale /\ (\E p \in Procs : Passed(p))) =>
            /\ Cardinality({p \in Procs : pc[p] \in {"opened", "holding"}}) = 1
            /\ \A p \in Procs : pc[p] = "failed" => err[p].kind = "LockHeld")
    /\ [][\A p \in Procs :
            ((pc[p] = "idle" /\ pc'[p] = "eexist") \/ (pc[p] = "eexist" /\ pc'[p] = "failed"))
                => marker' = marker]_vars

\* C2 witness: two attempts on a directory that started unlocked, one holding the
\* lock and one failed with the lock-held error naming the holder's record
C2_Witness ==
    \E p, q \in Procs : /\ p # q /\ ~everFreed /\ ~stale
                        /\ pc[p] = "holding" /\ pc[q] = "failed"
                        /\ err[q].kind = "LockHeld"
                        /\ err[q].details = marker.content
                        /\ Len(marker.content) = 2

\* C3: every call of a release closure returns without raising; the first call
\* leaves no marker behind (also when the marker was already gone), every later
\* call changes nothing.
C3_ReleaseIdempotent ==
    [][\A p \in Procs :
        (relLog'[p].calls = relLog[p].calls + 1) =>
            /\ ~relLog'[p].threw
            /\ relLog[p].calls = 0 => (~Exists(marker') /\ released'[p])
            /\ relLog[p].calls >= 1 =>
                   (marker' = marker /\ released' = released /\ pc' = pc)]_vars

\* C3 witness: a closure called twice whose first call found the marker already
\* removed by someone else
C3_Witness ==
    \E p \in Procs : /\ relLog[p].calls >= 2
                     /\ relLog[p].absent
                     /\ ~relLog[p].threw

\* C4 as stated: every inspecting command (doctor and auth status) that ran while
\* a marker existed completes reporting lockHeld = true.
C4_Original ==
    (insp.pc = "cleanup" /\ Exists(insp.at)) =>
        ("lockHeld" \in insp.out.fields /\ insp.out.lockHeld)

\* C4 amended: no step of doctor or auth status creates, changes or removes the
\* marker; doctor completes with lockHeld equal to the marker's existence at its
\* read and lockInfo the marker's text (exists = false, info = null without a
\* marker); auth status never reads the marker and reports no lock field.
C4_InspectFrame ==
    /\ [](insp.pc \in {"probe", "cleanup"} /\ insp.cmd = "doctor" =>
            /\ insp.lock.exists = Exists(insp.at)
            /\ ~Exists(insp.at) => (insp.lock.null /\ insp.lock.info = <<>>)
            /\ Exists(insp.at) => (~insp.lock.null /\ insp.lock.info = insp.at.content))
    /\ [](insp.pc = "cleanup" =>
            IF insp.cmd = "doctor"
            THEN /\ "lockHeld" \in insp.out.fields
                 /\ insp.out.lockHeld = Exists(insp.at)
                 /\ insp.out.lockInfo = insp.at.content
            ELSE "lockHeld" \notin insp.out.fields /\ insp.lock = NotRead)
    /\ [][insp' # insp => marker' = marker]_vars

\* C4 witness: doctor has reported lockHeld = true while another process holds
\* the lock it saw
C4_Witness ==
    /\ insp.pc = "cleanup" /\ insp.cmd = "doctor" /\ insp.out.lockHeld
    /\ \E p \in Procs : pc[p] = "holding" /\ ~released[p] /\ marker = insp.at

\* C5: once the creator of the marker has terminated without releasing, the
\* marker stays as it is and every acquisition started afterwards, by any
\* process, ends in the lock-held error (no actor outside the program).
C5_StaleLockStays ==
    [][stale =>
        /\ marker' = marker
        /\ stale'
        /\ \A p \in Procs :
              /\ (pc[p] = "idle" /\ pc'[p] # "idle") => pc'[p] = "eexist"
              /\ (pc[p] = "eexist" /\ pc'[p] \notin {"eexist", "idle"}) =>
                     (pc'[p] = "failed" /\ err'[p].kind = "LockHeld")]_vars

\* C5 witness: the process that wrote the marker terminated, started again and
\* was refused by its own stale marker
C5_Witness ==
    \E p \in Procs : /\ stale
                     /\ Len(marker.content) = 2 /\ marker.content[1] = p
                     /\ pc[p] = "failed" /\ err[p].kind = "LockHeld"

\* position of the first occurrence of event e in the CLI's log (0: not there)
Idx(e) ==
    IF \E i \in 1..Len(cli.log) : cli.log[i] = e
    THEN CHOOSE i \in 1..Len(cli.log) :
            cli.log[i] = e /\ \A k \in 1..(i - 1) : cli.log[k] # e
    ELSE 0

Did(e) == Idx(e) > 0

\* the marker on disk is the one the CLI process created
OwnMarker == Exists(marker) /\ marker.ino = acqIno[Cli]

\* C6: in follow mode the lock is released by the signal handler only, and there
\* the order is service shutdown, client destroy, lock release, process exit: the
\* marker is never removed before shutdown and destroy have completed, and a
\* handler none of whose steps failed exits only after the release.
C6_ShutdownOrder ==
    cli.follow =>
        /\ released[Cli] => (cli.stopping /\ Did("release"))
        /\ Did("release") =>
              /\ cli.svc = "down" /\ cli.client = "destroyed"
              /\ 0 < Idx("shutdown") /\ Idx("shutdown") < Idx("destroy")
              /\ Idx("destroy") < Idx("release")
        /\ ~Did("release") => (Did("acquired") => OwnMarker)
        /\ Did("destroy") => (0 < Idx("shutdown") /\ Idx("shutdown") < Idx("destroy"))
        /\ (cli.stopping /\ cli.exit = "0") =>
              /\ Did("shutdown") \/ Did("shutdown_failed")
              /\ (~Did("shutdown_failed") /\ ~Did("destroy_failed")) =>
                     (0 < Idx("release") /\ Idx("release") < Idx("exit0") /\ ~Exists(marker))

\* C6 witness: a follow-mode command was signalled and has exited after shutdown,
\* destroy and release
C6_Witness ==
    /\ cli.follow /\ cli.stopping /\ cli.exit = "0"
    /\ Did("shutdown") /\ Did("destroy") /\ Did("release")
    /\ ~Exists(marker)

\* C7 as stated: whenever a command that had acquired the lock has ended after a
\* signal was delivered to it, its marker is gone.
C7_SignalReleases ==
    (cli.exit # "running" /\ Did("acquired") /\ (Did("killed") \/ cli.stopping))
        => ~OwnMarker

\* C8: the client and the service exist only after the lock was acquired, the
\* lock is released only after the service has been shut down (until then the
\* CLI's marker is on disk), and a failed acquisition ends the command with exit
\* status 1 before any service is created or any step runs, the holder's marker
\* untouched.
C8_LockForSession ==
    /\ (cli.svc # "none" \/ cli.client # "none") =>
          (0 < Idx("acquired") /\ Idx("acquired") < Idx("services"))
    /\ (released[Cli] \/ Did("release")) =>
          (cli.svc = "down" /\ 0 < Idx("shutdown") /\ Idx("shutdown") < Idx("release"))
    /\ (Did("acquired") /\ cli.svc # "down") => (OwnMarker /\ ~released[Cli])
    /\ pc[Cli] = "failed" =>
          /\ cli.svc = "none" /\ cli.client = "none"
          /\ cli.exit = "1" /\ cli.thrown = "LockHeld" /\ cli.log = <<"exit1">>
          /\ err[Cli].kind = "LockHeld"
          /\ marker = [ino |-> 1, content |-> lockPayload(Other, 1)]
          /\ pc[Other] = "holding" /\ ~released[Other]

\* C8 witness: a sync --once run that released the lock after the service was
\* shut down and the client destroyed
C8_Witness ==
    /\ cli.cmd.name = "sync" /\ ~cli.follow
    /\ released[Cli] /\ cli.svc = "down" /\ cli.client = "destroyed"
    /\ cli.exit = "0" /\ ~Exists(marker)

\* the moment T at which the queue last reached quiescence during the wait (the
\* start of the wait if it has been quiescent all along); frozen at the return
QuiescentAt == idl.lastBusy

\* C9 as stated: waitForIdle returns only when the queue has been quiescent at
\* every moment of an interval of at least idleExitMs ending at the return.
C9_Sustained ==
    Returned => idl.ret - QuiescentAt >= idl.window

\* C9 amended: waitForIdle returns only when every poll (one per 500 ms) of an
\* interval of at least idleExitMs ending at the return saw the queue quiescent;
\* idleStart is the time of the first poll of the current unbroken run of
\* quiescent polls, so a busy poll restarts the window, while activity that
\* begins and ends between two polls is not seen and restarts nothing.
C9_SustainedAtPolls ==
    /\ idl.wpc \in {"sleeping", "returned"} => idl.idleStart = idl.quietSince
    /\ Returned =>
          /\ idl.quietSince # Null
          /\ idl.quietSince >= idl.start
          /\ idl.ret - idl.quietSince >= idl.window

\* C9 witness: a wait whose window was restarted by a busy poll and that then
\* returned after a full window of quiescent polls
C9_Witness ==
    /\ Returned /\ idl.window > 0 /\ idl.sawBusy
    /\ idl.quietSince > idl.start
    /\ idl.ret - idl.quietSince >= idl.window

\* C10 as stated: with an idle window of 2000 ms, if the queue reaches quiescence
\* at T and stays quiescent, waitForIdle returns no earlier than T + 2000 ms and
\* no later than T + 2500 ms.
C10_Bounded ==
    idl.window = 2000 =>
        /\ Returned => /\ idl.ret >= QuiescentAt + idl.window
                       /\ idl.ret <= QuiescentAt + idl.window + PollMs
        /\ (Waiting /\ Quiescent(queue)) => idl.now <= QuiescentAt + idl.window + PollMs

\* C10 amended: with polls exactly 500 ms apart and a window of 2000 ms,
\* waitForIdle returns no later than T + 2500 ms and not before T; it returns no
\* earlier than T + 2000 ms when a poll saw the activity that ended at T (or the
\* queue was quiescent since the wait began).
C10_BoundedWhenSeen ==
    idl.window = 2000 =>
        /\ Returned => /\ idl.ret >= QuiescentAt
                       /\ idl.seen => idl.ret >= QuiescentAt + idl.window
                       /\ idl.ret <= QuiescentAt + idl.window + PollMs
        /\ (Waiting /\ Quiescent(queue)) => idl.now <= QuiescentAt + idl.window + PollMs

\* C10 witness: the queue was seen busy, became quiescent between two polls, and
\* the wait returned between 2000 and 2500 ms later
C10_Witness ==
    /\ Returned /\ idl.window = 2000 /\ idl.sawBusy /\ idl.seen
    /\ (QuiescentAt - idl.start) % PollMs # 0
    /\ idl.ret >= QuiescentAt + 2000 /\ idl.ret <= QuiescentAt + 2500

\* every job is idle or error
Settled == \A i \in 1..Len(queue.jobs) : queue.jobs[i] \in {"idle", "error"}

\* C11 as stated: whenever sync --once reports, the snapshot it reports has
\* pending = 0 and in_progress = 0.
C11_ReportsDrained ==
    cli.report # <<>> => (cli.report[1].pending = 0 /\ cli.report[1].in_progress = 0)

\* C11 amended: waitForIdle returns only from a poll whose snapshot had pending = 0,
\* in_progress = 0 and processing = false; the snapshot sync --once reports is the
\* queue as it is when the wait has returned and the command resumes, equal to the
\* last poll's (so drained) unless the queue changed after that poll; and if
\* every job eventually reaches idle or error and stays there, sync --once
\* eventually reports and terminates.
C11_ReportAfterDrain ==
    /\ [](Returned =>
            /\ idl.polled # <<>>
            /\ idl.polled[1].pending = 0 /\ idl.polled[1].in_progress = 0
            /\ ~idl.polled[1].processing)
    /\ []((cli.report # <<>> /\ ~idl.touched) => cli.report = idl.polled)
    /\ [][cli'.report # cli.report =>
            (Returned /\ cli'.report = <<getQueueStats(queue)>>)]_vars
    /\ (<>[]Settled) => <>(cli.report # <<>> /\ cli.exit \in {"0", "1"})

\* C11 witness: a run that saw its job in progress, waited for it to finish,
\* reported the drained queue and ended with exit status 0
C11_Witness ==
    /\ cli.report # <<>> /\ cli.exit = "0" /\ idl.sawBusy /\ ~idl.touched
    /\ cli.report[1].idle = 1 /\ cli.report[1].pending = 0
    /\ cli.report[1].in_progress = 0
    /\ idl.window = 2000

\* C12: the queue never has more than one job in_progress, and a pending job
\* moves to in_progress only when no job is in_progress and no job created
\* before it is pending.
C12_OneInProgress ==
    /\ [](Cardinality(InProgress(queue)) <= 1 /\ getQueueStats(queue).in_progress <= 1)
    /\ [][\A i \in 1..Len(queue.jobs) :
            (queue.jobs[i] = "pending" /\ queue'.jobs[i] = "in_progress") =>
                /\ InProgress(queue) = {}
                /\ \A k \in 1..(i - 1) : queue.jobs[k] # "pending"]_vars

\* C12 witness: the second job is in progress after the first one, started
\* before it, has finished
C12_Witness ==
    /\ Len(queue.jobs) >= 2
    /\ queue.jobs[1] \in {"idle", "error"}
    /\ queue.jobs[2] = "in_progress"

\* a job left in_progress by a process that is gone
Orphan(i) == queue.jobs[i] = "in_progress" /\ queue.own[i] \in {"cut", "left"}

Orphans == {i \in 1..Len(queue.jobs) : Orphan(i)}

\* a job left in_progress by a process that was killed
Cut == {i \in 1..Len(queue.jobs) : Orphan(i) /\ queue.own[i] = "cut"}

StartupOver == cli.pc \notin {"acquire", "setup", "authcheck", "refresh"}

\* C13 as stated: once the next sync startup after the kill is over (and that
\* process has not been killed in turn), the job the killed process left
\* in_progress has been reset to pending.
C13_NextStartupResumes ==
    (cli.run > 1 /\ StartupOver /\ cli.exit # "crash") => Cut = {}

\* C13 amended: the jobs and their anchors are the same after a kill and after a
\* restart as before; the next sync startup that gets as far as
\* resumePendingJobs (the marker left by the killed process cleared, the
\* authorization check and the dialog refresh passed) resets every job left
\* in_progress to pending with its anchor unchanged, leaving the other jobs as
\* they are; and every batch fetched afterwards is older than the persisted anchor.
C13_ResumeKeepsAnchor ==
    /\ []((Did("resumed") /\ cli.exit # "crash") => Orphans = {})
    /\ [][(~Did("resumed") /\ Did("resumed")') =>
            /\ queue'.anchor = queue.anchor
            /\ Len(queue'.jobs) = Len(queue.jobs)
            /\ \A i \in 1..Len(queue.jobs) :
                  queue'.jobs[i] = IF queue.jobs[i] = "in_progress" THEN "pending"
                                   ELSE queue.jobs[i]]_vars
    /\ [][(cli'.run # cli.run \/ cli'.exit = "crash") =>
            (queue'.jobs = queue.jobs /\ queue'.anchor = queue.anchor)]_vars
    /\ [](queue.work # Null => \A i \in InProgress(queue) : queue.work < queue.anchor[i])

\* C13 witness: the second run has resumed a job that the first run, killed,
\* had left in_progress with part of its history fetched
C13_Witness ==
    /\ cli.run = 2 /\ Did("resumed")
    /\ \E i \in 1..Len(queue.jobs) :
          /\ queue.jobs[i] = "pending" /\ queue.own[i] = "cut"
          /\ 0 < queue.anchor[i] /\ queue.anchor[i] < Newest

\* C14: no step (batch, requeue, kill, restart, resume) moves the anchor of a
\* job forward, and no job row disappears.
C14_AnchorBackward ==
    [][/\ Len(queue'.anchor) >= Len(queue.anchor)
       /\ \A i \in 1..Len(queue.anchor) : queue'.anchor[i] <= queue.anchor[i]]_vars

\* C14 witness: a job left in_progress by a killed process, resumed and started
\* again by the second run, has persisted a batch that took it to its min_date
C14_Witness ==
    /\ cli.run = 2
    /\ \E i \in 1..Len(queue.jobs) :
          /\ queue.jobs[i] = "in_progress" /\ queue.own[i] = "rerun"
          /\ queue.anchor[i] = 0 /\ queue.work = Null

\* the command got into its try block (the services exist, --idle-exit parsed)
InTry == Did("services") /\ cli.thrown # "InvalidDuration"

CleanupFailed == Did("shutdown_failed") \/ Did("destroy_failed")

\* C15: a sync --once run that got into its try block and has ended, whatever
\* the outcome of the steps of the try block, has shut the service down,
\* destroyed the client and released the lock, and no LOCK marker is left,
\* provided neither shutdown nor destroy failed.
C15_OnceFinallyReleases ==
    (cli.cmd.name = "sync" /\ cli.cmd.once /\ ~cli.cmd.follow /\ InTry
        /\ cli.exit \in {"0", "1"} /\ ~CleanupFailed) =>
            /\ 0 < Idx("shutdown") /\ Idx("shutdown") < Idx("destroy")
            /\ Idx("destroy") < Idx("release")
            /\ released[Cli] /\ ~Exists(marker)
            /\ cli.exit = (IF cli.thrown = "none" THEN "0" ELSE "1")

\* C15 witness: a sync --once run whose dialog refresh failed has ended with
\* exit status 1 and the marker removed
C15_Witness ==
    /\ cli.cmd.name = "sync" /\ cli.cmd.once /\ ~cli.cmd.follow
    /\ Did("authorized") /\ ~Did("refreshed") /\ cli.thrown = "StepFailed"
    /\ cli.exit = "1" /\ Did("release") /\ ~Exists(marker)

\* C16 as stated: a follow-mode command that ended with an error during its
\* startup (lock acquired, handlers not yet installed) has released the lock.
C16_FollowStartupReleases ==
    (cli.follow /\ Did("acquired") /\ ~cli.handlers /\ cli.exit = "1") => ~OwnMarker

\* C17 as stated: a command whose shutdown or destroy step failed during its
\* cleanup has still released the lock when it ends.
C17_BestEffortShutdown ==
    (cli.exit \in {"0", "1"} /\ CleanupFailed) => (Did("release") /\ ~OwnMarker)

\* C18 as stated: a sync command rejected for its --idle-exit value leaves no
\* marker of its own behind.
C18_InvalidDurationUnlocked ==
    (cli.thrown = "InvalidDuration" /\ cli.exit # "running") => ~OwnMarker

\* C19: sync runs in once mode exactly when --once is given and --follow is not;
\* startUpdates and startRealtimeSync run only in follow mode and only after
\* resumePendingJobs; once mode starts neither and installs no signal handler.
C19_ModeSelection ==
    (cli.cmd.name = "sync" /\ InTry) =>
        /\ ~cli.follow <=> (cli.cmd.once /\ ~cli.cmd.follow)
        /\ (Did("updates") \/ Did("realtime") \/ cli.handlers) =>
              /\ cli.follow
              /\ 0 < Idx("resumed") /\ Idx("resumed") < Idx("updates")
              /\ Did("realtime") => Idx("updates") < Idx("realtime")
              /\ cli.handlers => Did("realtime")
        /\ ~cli.follow =>
              (~Did("updates") /\ ~Did("realtime") /\ ~cli.handlers /\ ~cli.stopping)

\* C19 witness: sync --once --follow runs in follow mode with realtime capture
\* started and the handlers installed
C19_Witness ==
    /\ cli.cmd.name = "sync" /\ cli.cmd.once /\ cli.cmd.follow
    /\ cli.follow /\ Did("realtime") /\ cli.handlers /\ cli.pc = "following"

\* positions of the signals the handlers received
SignalsAt == {i \in 1..Len(cli.log) : cli.log[i] = "signal"}

\* C20: whatever signals arrive in follow mode, shutdown, destroy and release
\* are each invoked at most once; a signal arriving after the first changes
\* nothing; and the process exits with status 0 only when the first invocation
\* of the handler is over (all its steps done, or one of them failed).
C20_HandlerOnce ==
    /\ [](\A s \in CleanupSteps : cli.calls[s] <= 1)
    /\ [][(cli.stopping /\ cli'.signals # cli.signals) =>
            /\ cli' = [cli EXCEPT !.signals = cli.signals + 1,
                                  !.log = Append(cli.log, "signal")]
            /\ marker' = marker /\ released' = released]_vars
    /\ []((cli.stopping /\ cli.exit # "running") =>
            /\ cli.exit = "0"
            /\ Did("release") \/ CleanupFailed)

\* C20 witness: a second signal arrived while the first shutdown was awaiting the
\* service shutdown; the handler ran shutdown, destroy and release once each
\* and the process exited
C20_Witness ==
    /\ cli.exit = "0" /\ cli.stopping /\ Cardinality(SignalsAt) = 2
    /\ \A i \in SignalsAt : i < Idx("shutdown")
    /\ \A s \in CleanupSteps : cli.calls[s] = 1
    /\ ~Exists(marker)

\* the owner record { pid, startedAt } in full
CompleteRecord(info) == Len(info) = 2

\* C21 as stated: whenever readStoreLock has reported exists = true (here to
\* doctor), its info is a complete owner record, and so are the owner details of
\* every lock-held error.
C21_CompleteRecord ==
    /\ (insp.cmd = "doctor" /\ insp.pc \in {"probe", "cleanup"} /\ insp.lock.exists) =>
          CompleteRecord(insp.lock.info)
    /\ \A p \in Procs :
          (pc[p] = "failed" /\ err[p].kind = "LockHeld") => CompleteRecord(err[p].details)

\* C22 as stated: a call of a release closure never removes a marker that its own
\* acquisition did not create.
C22_ReleaseOnlyOwn ==
    [][\A p \in Procs :
        (relLog'[p].calls = relLog[p].calls + 1
            /\ Exists(marker) /\ marker.ino # acqIno[p]) => marker' = marker]_vars

====
